---- MODULE Spec2Model ----
(***************************************************************************)
(* A model of the rectpack arena (src/src/lib.rs): a W x H arena that      *)
(* keeps two HashMaps of rectangles keyed by their top-left corner, `free` *)
(* and `allocated`, with the operations Arena::new, Arena::alloc and       *)
(* Arena::free.  HashMap iteration order is unspecified, so `find` over    *)
(* `values()` is a choice among the matching entries and the pair order of *)
(* coalesce_all is a choice of iteration order.                            *)
(***************************************************************************)
EXTENDS Integers, Sequences, FiniteSets, Bags, TLC

\* Bounds of the model: the largest arena that is constructed.
MaxW == 2
MaxH == 3
\* The number of alloc and free calls made on one arena.
MaxCalls == 6
\* The number of calls made on one arena in the longer runs of SpecDeep.
MaxDeepCalls == 8

VARIABLES arenaW, arenaH, free, allocated, grants, result, calls

vars == <<arenaW, arenaH, free, allocated, grants, result, calls>>

----------------------------------------------------------------------------
\* Rectangle and RectMap

Rect(x, y, width, height) == [x |-> x, y |-> y, width |-> width, height |-> height]

id(rect) == <<rect.x, rect.y>>

end_x(rect) == rect.x + rect.width

end_y(rect) == rect.y + rect.height

EmptyMap == [k \in {} |-> Rect(0, 0, 0, 0)]

\* rects.insert(rect.id(), rect): an entry with the same id is overwritten
append_rect(rects, rect) ==
  [k \in DOMAIN rects \cup {id(rect)} |-> IF k = id(rect) THEN rect ELSE rects[k]]

\* HashMap::remove
remove(rects, k) == [j \in DOMAIN rects \ {k} |-> rects[j]]

\* HashMap::values
values(rects) == {rects[k] : k \in DOMAIN rects}

\* Option<Rectangle>: <<>> is None, <<r>> is Some(r)
None == <<>>
Some(r) == <<r>>

coalesce(self, other) ==
  IF self.width = other.width /\ self.x = other.x
  THEN IF self.y + self.height = other.y
       THEN Some([self EXCEPT !.height = self.height + other.height])
       ELSE IF self.y = other.y + other.height
       THEN Some([other EXCEPT !.height = self.height + other.height])
       ELSE None
  ELSE IF self.height = other.height /\ self.y = other.y
  THEN IF self.x + self.width = other.x
       THEN Some([self EXCEPT !.width = self.width + other.width])
       ELSE IF other.x + other.width = self.x
       THEN Some([other EXCEPT !.width = self.width + other.width])
       ELSE None
  ELSE None

\* assert!(width <= self.width)
split_h_assert(self, width) == width <= self.width

\* split_h whose right piece keeps the whole width
split_h_WideRest(self, width) ==
  << [self EXCEPT !.width = width],
     [self EXCEPT !.x = self.x + width] >>

split_h(self, width) ==
  << [self EXCEPT !.width = width],
     [self EXCEPT !.x = self.x + width, !.width = self.width - width] >>

\* assert!(height <= self.height)
split_v_assert(self, height) == height <= self.height

split_v(self, height) ==
  << [self EXCEPT !.height = height],
     [self EXCEPT !.y = self.y + height, !.height = self.height - height] >>

----------------------------------------------------------------------------
\* coalesce_all

\* The entries that merge with some other entry; the others add no pair.
Mergeable(rects) ==
  {k \in DOMAIN rects :
     \E j \in DOMAIN rects \ {k} : coalesce(rects[k], rects[j]) # None}

\* The iteration orders of a set of keys
RECURSIVE Orders(_)
Orders(S) ==
  IF S = {} THEN {<<>>}
  ELSE UNION {{<<k>> \o o : o \in Orders(S \ {k})} : k \in S}

\* new_rects, in the order of the nested loops over order[i], order[j], j > i
RECURSIVE InnerLoop(_, _, _, _)
InnerLoop(rects, order, i, j) ==
  IF j > Len(order) THEN <<>>
  ELSE coalesce(rects[order[i]], rects[order[j]]) \o InnerLoop(rects, order, i, j + 1)

RECURSIVE OuterLoop(_, _, _)
OuterLoop(rects, order, i) ==
  IF i > Len(order) THEN <<>>
  ELSE InnerLoop(rects, order, i, i + 1) \o OuterLoop(rects, order, i + 1)

RECURSIVE AppendAll(_, _)
AppendAll(rects, new_rects) ==
  IF new_rects = <<>> THEN rects
  ELSE AppendAll(append_rect(rects, Head(new_rects)), Tail(new_rects))

\* A sweep that inserts the merged rectangles and removes nothing
Sweep_KeepOriginals(rects, order) ==
  AppendAll(rects, OuterLoop(rects, order, 1))

\* One sweep: every entry of a merging pair is removed, every merged
\* rectangle is inserted, in the order the pairs were found.
Sweep(rects, order) ==
  LET removed == {order[i] : i \in 1..Len(order)}
      kept    == [k \in DOMAIN rects \ removed |-> rects[k]]
  IN  AppendAll(kept, OuterLoop(rects, order, 1))

\* One iteration order of a set of keys
RECURSIVE AnyOrder(_)
AnyOrder(S) ==
  IF S = {} THEN <<>>
  ELSE LET k == CHOOSE k \in S : TRUE IN <<k>> \o AnyOrder(S \ {k})

\* Two of the merged rectangles have the same id: which one the map keeps
\* depends on the order of the inserts.
Collide(new_rects) ==
  \E i, j \in 1..Len(new_rects) : i < j /\ id(new_rects[i]) = id(new_rects[j])

\* The iteration orders that matter: coalesce is symmetric, so the order
\* only decides which insert comes last among merged rectangles of one id.
SweepOrders(rects, merging) ==
  IF Collide(OuterLoop(rects, AnyOrder(merging), 1))
  THEN Orders(merging)
  ELSE {AnyOrder(merging)}

\* coalesce_all without the recursive call: one sweep only
coalesce_all_OneSweep(rects) ==
  LET merging == Mergeable(rects)
  IN  IF merging = {} THEN {rects}
      ELSE {Sweep(rects, order) : order \in SweepOrders(rects, merging)}

\* The maps coalesce_all can leave, over the iteration orders
RECURSIVE coalesce_all(_)
coalesce_all(rects) ==
  LET merging == Mergeable(rects)
  IN  IF merging = {} THEN {rects}
      ELSE UNION {coalesce_all(Sweep(rects, order)) :
                    order \in SweepOrders(rects, merging)}

----------------------------------------------------------------------------
\* Arena::alloc

Outcome(status, rect, fr, al, mid) ==
  [status |-> status, rect |-> rect, free |-> fr, allocated |-> al, mid |-> mid]

\* InvalidSize with the upper limits off by one
InvalidSize_OffByOne(width, height, aw, ah) ==
  width = 0 \/ height = 0 \/ width >= aw \/ height >= ah

InvalidSize(width, height, aw, ah) ==
  width = 0 \/ height = 0 \/ width > aw \/ height > ah

ExactCandidates(fr, width, height) ==
  {rect \in values(fr) : rect.width = width /\ rect.height = height}

WidthCandidates(fr, width, height) ==
  {rect \in values(fr) : rect.width = width /\ rect.height >= height}

HeightCandidates(fr, width, height) ==
  {rect \in values(fr) : rect.height = height /\ rect.width >= width}

FitCandidates(fr, width, height) ==
  {rect \in values(fr) : rect.width >= width /\ rect.height >= height}

\* The exact-fit branch without self.free.remove
ExactFit_KeepFree(rect, fr, al) ==
  Outcome("Ok", Some(rect), fr, append_rect(al, rect), fr)

ExactFit(rect, fr, al) ==
  Outcome("Ok", Some(rect), remove(fr, id(rect)), append_rect(al, rect), fr)

\* lines 172-176: the found rectangle is cut with split_h(width)
WidthMatch(rect, fr, al, width, height) ==
  LET fr1 == remove(fr, id(rect))
  IN  IF ~split_h_assert(rect, width)
      THEN Outcome("Panic", None, fr1, al, fr)
      ELSE LET s == split_h(rect, width)
           IN  Outcome("Ok", Some(s[1]), append_rect(fr1, s[2]),
                       append_rect(al, s[1]), fr)

\* lines 186-190: the found rectangle is cut with split_h(height)
HeightMatch(rect, fr, al, width, height) ==
  LET fr1 == remove(fr, id(rect))
  IN  IF ~split_h_assert(rect, height)
      THEN Outcome("Panic", None, fr1, al, fr)
      ELSE LET s == split_h(rect, height)
           IN  Outcome("Ok", Some(s[1]), append_rect(fr1, s[2]),
                       append_rect(al, s[1]), fr)

\* The general fit with the second cut made by split_h instead of split_v
GeneralFit_SplitHTwice(rect, fr, al, width, height) ==
  LET fr1 == remove(fr, id(rect))
  IN  IF ~split_h_assert(rect, width)
      THEN Outcome("Panic", None, fr1, al, fr)
      ELSE LET s   == split_h(rect, width)
               fr2 == append_rect(fr1, s[2])
           IN  IF ~split_h_assert(s[1], height)
               THEN Outcome("Panic", None, fr2, al, fr)
               ELSE LET t == split_h(s[1], height)
                    IN  Outcome("Ok", Some(t[1]), append_rect(fr2, t[2]),
                                append_rect(al, t[1]), fr)

\* lines 201-207: split_h(width), then split_v(height) of the left piece
GeneralFit(rect, fr, al, width, height) ==
  LET fr1 == remove(fr, id(rect))
  IN  IF ~split_h_assert(rect, width)
      THEN Outcome("Panic", None, fr1, al, fr)
      ELSE LET s   == split_h(rect, width)
               fr2 == append_rect(fr1, s[2])
           IN  IF ~split_v_assert(s[1], height)
               THEN Outcome("Panic", None, fr2, al, fr)
               ELSE LET t == split_v(s[1], height)
                    IN  Outcome("Ok", Some(t[1]), append_rect(fr2, t[2]),
                                append_rect(al, t[1]), fr)

\* The placement search on the coalesced free map
Search(fr, al, width, height) ==
  IF ExactCandidates(fr, width, height) # {}
  THEN {ExactFit(rect, fr, al) : rect \in ExactCandidates(fr, width, height)}
  ELSE IF WidthCandidates(fr, width, height) # {}
  THEN {WidthMatch(rect, fr, al, width, height) :
          rect \in WidthCandidates(fr, width, height)}
  ELSE IF HeightCandidates(fr, width, height) # {}
  THEN {HeightMatch(rect, fr, al, width, height) :
          rect \in HeightCandidates(fr, width, height)}
  ELSE IF FitCandidates(fr, width, height) # {}
  THEN {GeneralFit(rect, fr, al, width, height) :
          rect \in FitCandidates(fr, width, height)}
  ELSE {Outcome("OutOfSpace", None, fr, al, fr)}

alloc(fr, al, width, height, aw, ah) ==
  IF InvalidSize(width, height, aw, ah)
  THEN {Outcome("InvalidSize", None, fr, al, fr)}
  ELSE UNION {Search(mid, al, width, height) : mid \in coalesce_all(fr)}

----------------------------------------------------------------------------
\* Arena::free

\* free that looks the entry up in `allocated` and leaves it there
free_rect_KeepAllocated(fr, al, rect) ==
  IF id(rect) \notin DOMAIN al
  THEN Outcome("RectangleNotFound", None, fr, al, fr)
  ELSE Outcome("Ok", Some(al[id(rect)]), append_rect(fr, al[id(rect)]), al, fr)

\* free that inserts the caller's rectangle into `free` before the lookup
free_rect_InsertFirst(fr, al, rect) ==
  IF id(rect) \notin DOMAIN al
  THEN Outcome("RectangleNotFound", None, append_rect(fr, rect), al, fr)
  ELSE Outcome("Ok", Some(al[id(rect)]), append_rect(fr, al[id(rect)]),
               remove(al, id(rect)), fr)

free_rect(fr, al, rect) ==
  IF id(rect) \notin DOMAIN al
  THEN Outcome("RectangleNotFound", None, fr, al, fr)
  ELSE Outcome("Ok", Some(al[id(rect)]), append_rect(fr, al[id(rect)]),
               remove(al, id(rect)), fr)

----------------------------------------------------------------------------
\* The state machine

Area(rect) == rect.width * rect.height

RECURSIVE SumArea(_)
SumArea(S) ==
  IF S = {} THEN 0
  ELSE LET r == CHOOSE r \in S : TRUE IN Area(r) + SumArea(S \ {r})

Call(op, out, width, height, arg) ==
  [op |-> op, status |-> out.status, rect |-> out.rect,
   w |-> width, h |-> height, arg |-> arg, mid |-> out.mid,
   merged |-> (out.mid # free),
   preArea |-> SumArea(values(free)), preAllocated |-> allocated]

\* Arena::new(width, height), width > 0 and height > 0
Init ==
  /\ arenaW \in 1..MaxW
  /\ arenaH \in 1..MaxH
  /\ free = append_rect(EmptyMap, Rect(0, 0, arenaW, arenaH))
  /\ allocated = EmptyMap
  /\ grants = EmptyBag
  /\ result = [op |-> "new", status |-> "Ok", rect |-> None, w |-> arenaW,
               h |-> arenaH, arg |-> None, mid |-> EmptyMap, merged |-> FALSE,
               preArea |-> 0, preAllocated |-> EmptyMap]
  /\ calls = 0

\* A panic ends the program.
Running == result.status # "Panic"

\* alloc called with any request, while fewer than `limit` calls were made
AllocWithin(limit) ==
  /\ Running
  /\ calls < limit
  /\ \E width \in 0..(arenaW + 1), height \in 0..(arenaH + 1) :
       \E out \in alloc(free, allocated, width, height, arenaW, arenaH) :
         /\ free' = out.free
         /\ allocated' = out.allocated
         /\ grants' = IF out.status = "Ok"
                      THEN grants (+) SetToBag({out.rect[1]}) ELSE grants
         /\ result' = Call("alloc", out, width, height, None)
  /\ calls' = calls + 1
  /\ UNCHANGED <<arenaW, arenaH>>

Alloc == AllocWithin(MaxCalls)

\* The rectangles a caller passes to free: one it was granted, the one it
\* passed to the previous free call (a double release), or one that was
\* never granted (only the id is looked at).
NeverGranted == Rect(0, 0, 1, 1)

FreeArgs ==
  BagToSet(grants) \cup {NeverGranted}
         \cup (IF result.op = "free" THEN {result.arg[1]} ELSE {})

\* The grant a successful free(rect) ends: the caller's own if it holds
\* one of that value, else the one stored under the id.
Released(rect, stored) ==
  IF BagIn(rect, grants) THEN SetToBag({rect}) ELSE SetToBag({stored})

FreeWithin(limit) ==
  /\ Running
  /\ calls < limit
  /\ \E rect \in FreeArgs :
       LET out == free_rect(free, allocated, rect)
       IN  /\ free' = out.free
           /\ allocated' = out.allocated
           /\ grants' = IF out.status = "Ok"
                        THEN grants (-) Released(rect, out.rect[1]) ELSE grants
           /\ result' = Call("free", out, 0, 0, Some(rect))
  /\ calls' = calls + 1
  /\ UNCHANGED <<arenaW, arenaH>>

Free == FreeWithin(MaxCalls)

Next == Alloc \/ Free

Spec == Init /\ [][Next]_vars

\* The same calls, two calls deeper
AllocDeep == AllocWithin(MaxDeepCalls)

FreeDeep == FreeWithin(MaxDeepCalls)

NextDeep == AllocDeep \/ FreeDeep

SpecDeep == Init /\ [][NextDeep]_vars

----------------------------------------------------------------------------
\* Geometry used by the properties

Max(a, b) == IF a >= b THEN a ELSE b

Min(a, b) == IF a <= b THEN a ELSE b

\* The interiors of a and b intersect in a region of non-zero area
Overlap(a, b) ==
  /\ Max(a.x, b.x) < Min(end_x(a), end_x(b))
  /\ Max(a.y, b.y) < Min(end_y(a), end_y(b))

Tracked == values(free) \cup values(allocated)

IsAlloc(r) == r.op = "alloc"

ValidRequest(r) == r.w \in 1..arenaW /\ r.h \in 1..arenaH

Fits(rect, r) == rect.width >= r.w /\ rect.height >= r.h

----------------------------------------------------------------------------
\* C1: no two distinct rectangles that were returned by a successful alloc
\* and not freed since overlap.
C1_GrantsDisjoint ==
  \A a, b \in BagToSet(grants) : a # b => ~Overlap(a, b)

\* C2: area conservation: the areas of the free rectangles plus the areas of
\* the allocated rectangles add up to W * H after every call that returned.
C2_AreaConserved ==
  Running => SumArea(values(free)) + SumArea(values(allocated)) = arenaW * arenaH

\* C3: a rectangle returned by alloc(w, h) has width w and height h.
C3_ReturnedSize ==
  (IsAlloc(result) /\ result.status = "Ok")
    => (result.rect[1].width = result.w /\ result.rect[1].height = result.h)

\* C4: no two distinct rectangles of free and allocated together overlap.
C4_PartitionDisjoint ==
  \A a, b \in Tracked : a # b => ~Overlap(a, b)

\* C5: the assertions of split_h and split_v hold in every call, so no call
\* aborts.
C5_NoAbort ==
  result.status # "Panic"

\* C6: no rectangle stored in free or allocated has width 0 or height 0.
C6_NoEmptyRect ==
  \A r \in Tracked : r.width > 0 /\ r.height > 0

\* C7: when nothing is allocated, alloc(W, H) succeeds; and on a fresh arena
\* of even height a second alloc(W, H/2) that follows a successful
\* alloc(W, H/2) succeeds too.
C7_FullArenaAgain ==
  [][/\ (allocated = EmptyMap /\ grants = EmptyBag /\ IsAlloc(result')
          /\ result'.w = arenaW /\ result'.h = arenaH)
        => result'.status = "Ok"
     /\ (calls = 1 /\ IsAlloc(result) /\ result.status = "Ok"
          /\ result.w = arenaW /\ 2 * result.h = arenaH
          /\ IsAlloc(result') /\ result'.w = arenaW /\ 2 * result'.h = arenaH)
        => result'.status = "Ok"]_vars

\* C8: for a request of valid size, alloc returns OutOfSpace exactly when no
\* free rectangle of the coalesced map is large enough, and returns Ok
\* whenever one is.
C8_OutOfSpaceIff ==
  (IsAlloc(result) /\ ValidRequest(result)) =>
    /\ (result.status = "OutOfSpace")
         <=> (\A rect \in values(result.mid) : ~Fits(rect, result))
    /\ (\E rect \in values(result.mid) : Fits(rect, result))
         => result.status = "Ok"

Errors == {"InvalidSize", "OutOfSpace", "RectangleNotFound"}

\* C9 (as claimed): a call that returns an error leaves free and allocated
\* exactly as they were before the call.
C9_ErrorLeavesMaps ==
  [][result'.status \in Errors => (free' = free /\ allocated' = allocated)]_vars

\* C9 (amended): InvalidSize and RectangleNotFound leave free and allocated
\* as they were; OutOfSpace leaves allocated as it was and leaves free as
\* the coalescing pass of that call left it.
C9_ErrorLeavesMapsCoalesced ==
  [][/\ result'.status \in {"InvalidSize", "RectangleNotFound"}
        => (free' = free /\ allocated' = allocated)
     /\ result'.status = "OutOfSpace"
        => (allocated' = allocated /\ free' \in coalesce_all(free))]_vars

\* An alloc failed with OutOfSpace after its coalescing pass had merged
\* free rectangles.
C9_Witness ==
  IsAlloc(result) /\ result.status = "OutOfSpace" /\ result.merged

\* C10: alloc(w, h) returns InvalidSize exactly when w = 0, h = 0, w > W or
\* h > H.
C10_InvalidSizeIff ==
  IsAlloc(result) =>
    ((result.status = "InvalidSize")
       <=> (result.w = 0 \/ result.h = 0 \/ result.w > arenaW \/ result.h > arenaH))

\* An oversized request was rejected while the arena still had free space
\* and an allocation outstanding.
C10_Witness ==
  /\ IsAlloc(result) /\ result.status = "InvalidSize"
  /\ result.w = arenaW + 1 /\ result.h \in 1..arenaH
  /\ allocated # EmptyMap
  /\ \E rect \in values(free) : Area(rect) > 0

IsFree(r) == r.op = "free"

\* C11: free(rect) returns RectangleNotFound whenever the id of rect is not
\* a key of allocated and Ok whenever it is; the value of a successful free
\* passed again right after it returns RectangleNotFound.
C11_NotFound ==
  [][IsFree(result') =>
       /\ id(result'.arg[1]) \notin DOMAIN allocated
            => result'.status = "RectangleNotFound"
       /\ id(result'.arg[1]) \in DOMAIN allocated
            => result'.status = "Ok"
       /\ (IsFree(result) /\ result.status = "Ok" /\ result'.arg = result.arg)
            => result'.status = "RectangleNotFound"]_vars

\* A rectangle was released twice in a row: it is in free, and the second
\* call failed.
C11_Witness ==
  /\ IsFree(result) /\ result.status = "RectangleNotFound"
  /\ result.arg[1] \in values(free)
  /\ result.arg[1] # NeverGranted
  /\ ~BagIn(result.arg[1], grants)

\* C12: a successful free(rect) removes exactly the entry of allocated under
\* the id of rect and inserts that stored rectangle into free; every entry
\* that free or allocated had under any id stays as it was (nothing is
\* merged, nothing is lost).
C12_FreeFrame ==
  [][(IsFree(result') /\ result'.status = "Ok") =>
       LET k == id(result'.arg[1]) IN
         /\ k \in DOMAIN allocated
         /\ DOMAIN allocated' = DOMAIN allocated \ {k}
         /\ \A j \in DOMAIN allocated' : allocated'[j] = allocated[j]
         /\ DOMAIN free' = DOMAIN free \cup {k}
         /\ free'[k] = allocated[k]
         /\ \A j \in DOMAIN free : free'[j] = free[j]]_vars

\* C13: every rectangle in free or allocated ends inside the arena:
\* x + width <= W and y + height <= H.
C13_InBounds ==
  \A r \in Tracked : end_x(r) <= arenaW /\ end_y(r) <= arenaH

\* Pieces cut off by both splits reach the far edges of the arena, and a
\* coalescing pass has merged free rectangles.
C13_Witness ==
  /\ \E r \in Tracked : r.x > 0 /\ r.width > 0 /\ end_x(r) = arenaW
  /\ \E r \in Tracked : r.y > 0 /\ end_y(r) = arenaH
  /\ result.merged

\* C14: no id is a key of both free and allocated, and neither the insert
\* of free(rect) nor the insert of the returned rectangle by alloc replaces
\* an entry that is already stored under that id.
C14_IdsUnique ==
  [][/\ DOMAIN free' \cap DOMAIN allocated' = {}
     /\ (IsFree(result') /\ result'.status = "Ok")
          => id(result'.rect[1]) \notin DOMAIN free
     /\ (IsAlloc(result') /\ result'.status = "Ok")
          => id(result'.rect[1]) \notin DOMAIN allocated]_vars

\* C15: a successful alloc followed at once by free of the returned
\* rectangle leaves the total free area and the allocated map as they were
\* before the alloc.
C15_RoundTrip ==
  [][(IsAlloc(result) /\ result.status = "Ok"
        /\ IsFree(result') /\ result'.arg = result.rect)
      => /\ result'.status = "Ok"
         /\ SumArea(values(free')) = result.preArea
         /\ allocated' = result.preAllocated]_vars

FullRect == Rect(0, 0, arenaW, arenaH)

FullMap == append_rect(EmptyMap, FullRect)

FullRequest(r) == IsAlloc(r) /\ r.w = arenaW /\ r.h = arenaH

\* C16: on a fresh arena alloc(W, H) returns (0, 0, W, H) and empties free;
\* while that rectangle is outstanding every request of valid size fails
\* with OutOfSpace; once it is freed, alloc(W, H) returns it again.
C16_Exhaustion ==
  [][/\ (calls = 0 /\ FullRequest(result'))
          => /\ result'.status = "Ok"
             /\ result'.rect = Some(FullRect)
             /\ free' = EmptyMap
     /\ (free = EmptyMap /\ allocated = FullMap
          /\ IsAlloc(result') /\ ValidRequest(result'))
          => result'.status = "OutOfSpace"
     /\ (calls > 0 /\ free = FullMap /\ allocated = EmptyMap
          /\ FullRequest(result'))
          => /\ result'.status = "Ok"
             /\ result'.rect = Some(FullRect)
             /\ free' = EmptyMap]_vars

\* The whole arena was handed out again after it had been handed out,
\* a request had failed for lack of space and it had been released.
C16_Witness ==
  /\ FullRequest(result) /\ result.status = "Ok"
  /\ result.rect = Some(FullRect)
  /\ free = EmptyMap /\ allocated = FullMap
  /\ result.preAllocated = EmptyMap
  /\ calls >= 4

\* Equal x and width and vertically adjacent, or equal y and height and
\* horizontally adjacent
Adjacent(a, b) ==
  \/ a.x = b.x /\ a.width = b.width /\ (end_y(a) = b.y \/ end_y(b) = a.y)
  \/ a.y = b.y /\ a.height = b.height /\ (end_x(a) = b.x \/ end_x(b) = a.x)

Coalesced(r) == IsAlloc(r) /\ r.status # "InvalidSize"

\* C17: when the coalescing pass at the start of alloc completes, no two
\* free rectangles are mergeable, and a second pass on its result leaves
\* the free set as it is.
C17_CoalesceMaximal ==
  Coalesced(result) =>
    /\ \A a, b \in values(result.mid) : a # b => ~Adjacent(a, b)
    /\ coalesce_all(result.mid) = {result.mid}

\* The pass rebuilt the whole arena out of several free rectangles.
C17_Witness ==
  /\ Coalesced(result) /\ result.merged
  /\ result.mid = FullMap
  /\ arenaW > 1 /\ arenaH > 1

\* Within n sweeps, whatever the iteration order, a sweep merges nothing.
RECURSIVE TerminatesWithin(_, _)
TerminatesWithin(rects, n) ==
  LET merging == Mergeable(rects)
  IN  \/ merging = {}
      \/ /\ n > 0
         /\ \A order \in SweepOrders(rects, merging) :
              TerminatesWithin(Sweep(rects, order), n - 1)

\* C18: from every reachable free set the coalescing pass sweeps without
\* a merge after at most as many sweeps as there are free rectangles, and
\* the alloc call that runs it has an outcome.
C18_CoalesceTerminates ==
  /\ TerminatesWithin(free, Cardinality(DOMAIN free))
  /\ Running => alloc(free, allocated, 1, 1, arenaW, arenaH) # {}

\* A free set that takes two merging sweeps before the sweep without one.
C18_Witness ==
  /\ ~TerminatesWithin(free, 1)
  /\ TerminatesWithin(free, Cardinality(DOMAIN free))

\* The last call was an alloc that carved its rectangle out of a free
\* rectangle both wider and taller than the request.
TookGeneralFit ==
  /\ IsAlloc(result) /\ result.status = "Ok"
  /\ id(result.rect[1]) \in DOMAIN result.mid
  /\ result.mid[id(result.rect[1])].width > result.w
  /\ result.mid[id(result.rect[1])].height > result.h

\* C19: an alloc(w, h) that takes a free rectangle R wider than w and taller
\* than h returns (R.x, R.y, w, h), removes R from free and inserts the
\* remainders (R.x + w, R.y, R.width - w, R.height) and
\* (R.x, R.y + h, w, R.height - h) and nothing else; the three pieces tile R.
\* (An insert replaces a free entry that has the id of a remainder.)
C19_GeneralFit ==
  TookGeneralFit =>
    LET R      == result.mid[id(result.rect[1])]
        w      == result.w
        h      == result.h
        got    == Rect(R.x, R.y, w, h)
        right  == Rect(R.x + w, R.y, R.width - w, R.height)
        below  == Rect(R.x, R.y + h, w, R.height - h)
    IN  /\ result.rect = Some(got)
        /\ R \notin values(free)
        /\ {right, below} \subseteq values(free)
        /\ values(free) \ {right, below} \subseteq values(result.mid) \ {R}
        /\ id(got) \in DOMAIN allocated /\ allocated[id(got)] = got
        /\ ~Overlap(got, right) /\ ~Overlap(got, below) /\ ~Overlap(right, below)
        /\ Area(got) + Area(right) + Area(below) = Area(R)
        /\ \A p \in {got, right, below} :
             /\ R.x <= p.x /\ end_x(p) <= end_x(R)
             /\ R.y <= p.y /\ end_y(p) <= end_y(R)

\* A general fit with a request that is not square, out of a rectangle
\* that the coalescing pass of the same call put together.
C19_Witness ==
  /\ TookGeneralFit
  /\ result.w # result.h
  /\ result.merged

\* C20: after every call the rectangles of `allocated` are the outstanding
\* grants (returned by a successful alloc and not freed since), and free
\* of an outstanding grant returns Ok.
C20_AllocatedIsGrants ==
  [][/\ values(allocated') = BagToSet(grants')
     /\ (IsFree(result') /\ BagIn(result'.arg[1], grants))
          => result'.status = "Ok"]_vars

====
